---------------------------- MODULE Spec2Model ----------------------------
(***************************************************************************)
(* A model of Xe/twirp-codegens:                                           *)
(*   - the protoc plugin protoc-gen-twirp_analytics (Generate,             *)
(*     generateFile, generateProtobufAnalytics and their helpers),         *)
(*   - the decorators it generates, as they run (the analytics wrapper     *)
(*     emitted by generateProtobufAnalytics and the logging wrapper of     *)
(*     proto/test.twirp.ln.go),                                            *)
(*   - the field classifier isRestricted of protoc-gen-twirp_ln.           *)
(*                                                                         *)
(* Go strings that the code takes apart (names that are split, trimmed,    *)
(* camel-cased or searched) are sequences of one-character strings; text   *)
(* that is only written out is a TLA+ string.  The output buffer is a      *)
(* sequence of lines, each line the sequence of arguments of one call of   *)
(* P.                                                                      *)
(***************************************************************************)
EXTENDS Integers, Sequences, FiniteSets, TLC

VARIABLES
    \* ---- the generator (cmd/protoc-gen-twirp_analytics/main.go)
    g_reg,        \* generator.reg: the registry of the last accepted request
    g_output,     \* generator.output: the bytes.Buffer, as a sequence of lines
    ran,          \* whether Generate has returned at least once
    lastIn,       \* the request of the last Generate
    lastResp,     \* what the last Generate returned: the response
    lastErr,      \* what the last Generate returned: the error
    prev,         \* <<>> or one remembered earlier invocation [in, resp, err]
    again,        \* a Generate has returned since prev was remembered
    \* ---- one decorator instance at run time
    kind,         \* which wrapper the current call runs: "analytics", "logging"
    pc,           \* position of the current call in the wrapper
    wService,     \* the service the wrapper was generated for
    wMethod,      \* the method the wrapper was generated for
    ctx,          \* the call's context: the ln.F fields it carries
    input,        \* the call's input
    result, err,  \* the wrapper's named results
    track,        \* the analytics.Track of the current call
    ret,          \* <<>> or what the wrapper returned to its caller
    callLog,      \* every call made to the wrapper, in order
    nextLog,      \* every invocation of the delegate: what it got and returned
    sink,         \* every Enqueue on the analytics client, with its outcome
    logs,         \* every ln.Error record
    \* ---- the field classifier (cmd/protoc-gen-twirp_ln/restricted.go)
    inp,          \* the field name last classified
    restricted,   \* isRestricted(inp)
    classified    \* whether a field name has been classified

genVars == <<g_reg, g_output, ran, lastIn, lastResp, lastErr, prev, again>>
runVars == <<kind, pc, wService, wMethod, ctx, input, result, err, track, ret,
             callLog, nextLog, sink, logs>>
clsVars == <<inp, restricted, classified>>
vars == <<genVars, runVars, clsVars>>

----------------------------------------------------------------------------
(* Bounds *)

\* longest FileToGenerate list of a request
MaxGen == 2
\* calls made to one decorator instance
MaxCalls == 2
\* longest padding put before or after the core of a classified field name
MaxPad == 1

----------------------------------------------------------------------------
(* Go strings *)

\* a Go nil error
NilErr == "<nil>"

RECURSIVE Str(_)
\* the text of a character sequence
Str(cs) == IF cs = <<>> THEN "" ELSE Head(cs) \o Str(Tail(cs))

Lower == <<"a","b","c","d","e","f","g","h","i","j","k","l","m",
           "n","o","p","q","r","s","t","u","v","w","x","y","z">>
Upper == <<"A","B","C","D","E","F","G","H","I","J","K","L","M",
           "N","O","P","Q","R","S","T","U","V","W","X","Y","Z">>
Digits == {"0","1","2","3","4","5","6","7","8","9"}

LowerSet == { Lower[i] : i \in 1..26 }
UpperOf == [c \in LowerSet |-> Upper[CHOOSE i \in 1..26 : Lower[i] = c]]

isASCIILower(c) == c \in LowerSet
isASCIIDigit(c) == c \in Digits
\* c ^= ' ' on a lower-case letter
ToUpper(c) == IF isASCIILower(c) THEN UpperOf[c] ELSE c

RECURSIVE CamelFrom(_, _, _)
\* the loop of stringutils.CamelCase from index i on; inWord says that the
\* previous character was copied as part of a run of lower-case letters
CamelFrom(s, i, inWord) ==
    IF i > Len(s) THEN <<>>
    ELSE LET c == s[i] IN
         IF inWord /\ isASCIILower(c)
         THEN <<c>> \o CamelFrom(s, i + 1, TRUE)
         ELSE IF c = "_" /\ i + 1 <= Len(s) /\ isASCIILower(s[i + 1])
         THEN CamelFrom(s, i + 1, FALSE)
         ELSE IF isASCIIDigit(c)
         THEN <<c>> \o CamelFrom(s, i + 1, FALSE)
         ELSE <<ToUpper(c)>> \o CamelFrom(s, i + 1, TRUE)

\* stringutils.CamelCase: foo_bar becomes FooBar, a leading _ becomes X
CamelCase(s) ==
    IF s = <<>> THEN <<>>
    ELSE IF s[1] = "_" THEN <<"X">> \o CamelFrom(s, 2, FALSE)
    ELSE CamelFrom(s, 1, FALSE)

RECURSIVE SplitFrom(_, _, _)
SplitFrom(s, i, cur) ==
    IF i > Len(s) THEN <<cur>>
    ELSE IF s[i] = "." THEN <<cur>> \o SplitFrom(s, i + 1, <<>>)
    ELSE SplitFrom(s, i + 1, Append(cur, s[i]))

\* strings.Split(s, "."): never empty, "" splits into one empty part
Split(s) == SplitFrom(s, 1, <<>>)

\* strings.HasPrefix in the place of strings.Contains
Contains_HasPrefix(s, sub) ==
    Len(sub) <= Len(s) /\ SubSeq(s, 1, Len(sub)) = sub

\* strings.Contains(s, sub)
Contains(s, sub) ==
    \E i \in 0..(Len(s) - Len(sub)) : SubSeq(s, i + 1, i + Len(sub)) = sub


----------------------------------------------------------------------------
(* Descriptors: the requests Generate is given *)

\* a MethodDescriptorProto
Method(name, inType, outType) ==
    [Name |-> name, InputType |-> inType, OutputType |-> outType]

\* a ServiceDescriptorProto
Service(name, methods) == [Name |-> name, Method |-> methods]

T_us_W   == <<".","u","s",".","W">>
T_us_W_I == <<".","u","s",".","W",".","I">>
T_us_T   == <<".","u","s",".","T">>
T_zz_M   == <<".","z","z",".","M">>

\* a.proto: two services, the second without methods; one nested message
FileA ==
    [Name        |-> <<"a",".","p","r","o","t","o">>,
     Package     |-> <<"u","s">>,
     MessageType |-> << <<"W">>, <<"W",".","I">> >>,
     Service     |->
        << Service(<<"h","e","l","l","o","_","w","o","r","l","d">>,
                   << Method("Speak", T_us_W, T_us_W),
                      Method("Shout", T_us_W_I, T_us_W) >>),
           Service(<<"E","m","p","t","y">>, <<>>) >>]

\* b.proto: messages only, no service
FileB ==
    [Name        |-> <<"b",".","p","r","o","t","o">>,
     Package     |-> <<"u","s">>,
     MessageType |-> << <<"T">> >>,
     Service     |-> <<>>]

\* dir/c.proto: its service takes a message of b.proto and returns a type that
\* no file declares
FileC ==
    [Name        |-> <<"d","/","c",".","p","r","o","t","o">>,
     Package     |-> <<"u","s">>,
     MessageType |-> <<>>,
     Service     |->
        << Service(<<"G","r","e","e","t","e","r">>,
                   << Method("Greet", T_us_T, T_zz_M) >>) >>]

\* the ProtoFile lists of the requests: every file, or b.proto left out
ProtoFiles == { <<FileA, FileB, FileC>>, <<FileA, FileC>> }

FileNames == { FileA.Name, FileB.Name, FileC.Name }

\* the FileToGenerate lists: protoc names no file twice
NameLists ==
    UNION { { l \in [1..n -> FileNames] :
                \A i, j \in 1..n : i # j => l[i] # l[j] } : n \in 0..MaxGen }

\* the CodeGeneratorRequests
Requests ==
    { [ProtoFile |-> pf, FileToGenerate |-> names] :
        pf \in ProtoFiles, names \in NameLists }

----------------------------------------------------------------------------
(* The generator *)

version == "v0.0.1"

RECURSIVE FindFile(_, _, _)
FindFile(protoFile, name, i) ==
    IF i > Len(protoFile) THEN <<>>
    ELSE IF protoFile[i].Name = name THEN <<protoFile[i]>>
    ELSE FindFile(protoFile, name, i + 1)

RECURSIVE FilesFrom(_, _, _)
FilesFrom(in, i, genFiles) ==
    IF i > Len(in.FileToGenerate) THEN [genFiles |-> genFiles, err |-> NilErr]
    ELSE LET f == FindFile(in.ProtoFile, in.FileToGenerate[i], 1) IN
         IF f = <<>>
         THEN [genFiles |-> <<>>,
               err |-> "could not find file named " \o Str(in.FileToGenerate[i])]
         ELSE FilesFrom(in, i + 1, genFiles \o f)

\* protogen.FilesToGenerate: the descriptors of the files named in
\* FileToGenerate, in that order, or an error for a name no ProtoFile has
FilesToGenerate(in) == FilesFrom(in, 1, <<>>)

\* typemap.New: every message of every file under its qualified name
typemapNew(protoFile) ==
    UNION { { <<".">> \o protoFile[i].Package \o <<".">> \o protoFile[i].MessageType[j] :
                j \in 1..Len(protoFile[i].MessageType) } :
            i \in 1..Len(protoFile) }

\* generator.P, called once for each element of lines: each call writes its
\* arguments and a line break
P(buf, lines) == buf \o lines

serviceName(service) == Str(CamelCase(service.Name))

methodName(method) == method.Name

\* the basename of the output type of a method
methodOutputName(meth) ==
    LET split == Split(meth.OutputType) IN Str(split[Len(split)])

\* methodInputName reading the output type
methodInputName_OutputType(meth) == methodOutputName(meth)

\* the basename of the input type of a method
methodInputName(meth) ==
    LET split == Split(meth.InputType) IN Str(split[Len(split)])

\* the lines generateProtobufAnalytics prints for one method
MethodLines(service, svcName, method) ==
    LET methName == methodName(method)
        miType   == methodInputName(method)
        moType   == methodOutputName(method)
    IN << <<"func (i ", svcName, ") ", methName,
            "(ctx context.Context, input *", miType, ") (result *", moType,
            ", err error) {">>,
          <<"\tvar track analytics.Track">>,
          <<"\ttrack.Event = ", "\"", serviceName(service), " ", methName, "\"">>,
          <<"\ttrack.UserId = ln.GetFFromContext(ctx)[\"x_forwarded_for\"].(string)">>,
          <<"\tdefer func() {">>,
          <<"\t\tif err != nil {">>,
          <<"\t\t\ttrack.Event += ", "\" Error\"">>,
          <<"\t\t}">>,
          <<"\t\terr = i.client.Enqueue(track)">>,
          <<"\t\tif err != nil {">>,
          <<"\t\t\tln.Error(ctx, err)">>,
          <<"\t\t}">>,
          <<"\t}()">>,
          <<>>,
          <<"\tresult, err = i.Next.", methName, "(ctx, input)">>,
          <<"\treturn">>,
          <<"}">>,
          <<>> >>

RECURSIVE MethodLoop(_, _, _, _)
\* the loop over service.Method, from method i on
MethodLoop(buf, service, svcName, i) ==
    IF i > Len(service.Method) THEN buf
    ELSE MethodLoop(P(buf, MethodLines(service, svcName, service.Method[i])),
                    service, svcName, i + 1)

generateProtobufAnalytics(buf, file, service) ==
    LET svcName == serviceName(service) \o "Analytics"
        head ==
          << <<"// ", svcName, " is a middleware for ", serviceName(service),
               " that collects timing and error rate data for servers.">>,
             <<"type ", svcName, " struct {">>,
             <<"\tNext ", serviceName(service)>>,
             <<"\tclient analytics.Client">>,
             <<"}">>,
             <<>>,
             <<"func New", svcName, "(next ", serviceName(service),
               ", client analytics.Client) ", serviceName(service), " {">>,
             <<"\tvar result ", svcName>>,
             <<"\tresult.Next = next">>,
             <<"\tresult.client = client">>,
             <<"\treturn result">>,
             <<"}">>,
             <<>> >>
    IN MethodLoop(P(buf, head), service, svcName, 1)

RECURSIVE ServiceLoop(_, _, _)
\* the loop over file.Service, from service i on
ServiceLoop(buf, file, i) ==
    IF i > Len(file.Service) THEN buf
    ELSE ServiceLoop(generateProtobufAnalytics(buf, file, file.Service[i]),
                     file, i + 1)

\* the Go package of a file: the last part of its proto package
goPackageName(file) ==
    LET split == Split(file.Package) IN Str(split[Len(split)])

RECURSIVE DropExt(_)
\* a path without its extension (the part from its last dot on)
DropExt(name) ==
    IF name = <<>> \/ ~Contains(name, <<".">>) THEN name
    ELSE IF name[Len(name)] = "." THEN SubSeq(name, 1, Len(name) - 1)
    ELSE DropExt(SubSeq(name, 1, Len(name) - 1))

\* the name of the generated file: the extension replaced by a fixed suffix
goFileName(file) == Str(DropExt(file.Name)) \o ".twirp.analytics.go"

\* what generateFile prints: the header, the imports and every service
FileText(buf, file) ==
    LET header ==
          << <<"// Code generated by protoc-gen-twirp_analytics ", version,
               ", DO NOT EDIT.">>,
             <<"// source: ", Str(file.Name)>>,
             <<"">>,
             <<"package ", goPackageName(file)>>,
             <<>>,
             <<"import \"context\"">>,
             <<"import \"github.com/Xe/ln\"">>,
             <<"import \"gopkg.in/segmentio/analytics-go.v3\"">>,
             <<>> >>
    IN ServiceLoop(P(buf, header), file, 1)

\* generateFile without g.output.Reset()
generateFile_NoReset(buf, file) ==
    LET out == FileText(buf, file)
    IN [output |-> out,
        respFile |-> << [Name |-> goFileName(file), Content |-> out] >>]

\* generator.generateFile: the buffer it leaves, after Reset, and the file it
\* returns, which is never nil
generateFile(buf, file) ==
    LET out == FileText(buf, file)
    IN [output |-> <<>>,
        respFile |-> << [Name |-> goFileName(file), Content |-> out] >>]

RECURSIVE FileLoop(_, _, _, _)
\* the loop of Generate over genFiles, from file i on; respFile is <<>> for
\* a nil *CodeGeneratorResponse_File
FileLoop(buf, genFiles, i, files) ==
    IF i > Len(genFiles) THEN [output |-> buf, File |-> files]
    ELSE LET r == generateFile(buf, genFiles[i]) IN
         FileLoop(r.output, genFiles, i + 1,
                  IF r.respFile # <<>> THEN files \o r.respFile ELSE files)

\* a nil *CodeGeneratorResponse
NilResp == [isNil |-> TRUE, File |-> <<>>]

\* generator.Generate
Generate(in) ==
    LET r == FilesToGenerate(in) IN
    /\ IF r.err # NilErr
       THEN /\ lastResp' = NilResp
            /\ lastErr' = r.err
            /\ UNCHANGED <<g_reg, g_output>>
       ELSE LET l == FileLoop(g_output, r.genFiles, 1, <<>>) IN
            /\ g_reg' = typemapNew(in.ProtoFile)
            /\ g_output' = l.output
            /\ lastResp' = [isNil |-> FALSE, File |-> l.File]
            /\ lastErr' = NilErr
    /\ lastIn' = in
    /\ ran' = TRUE
    /\ again' = TRUE
    /\ UNCHANGED prev

\* the caller keeps what the last invocation returned, to compare a later
\* invocation with it
Remember ==
    /\ ran
    /\ prev' = << [in |-> lastIn, resp |-> lastResp, err |-> lastErr] >>
    /\ again' = FALSE
    /\ UNCHANGED <<g_reg, g_output, ran, lastIn, lastResp, lastErr>>

\* newGenerator, before any request
GenInit ==
    /\ g_reg = {}
    /\ g_output = <<>>
    /\ ran = FALSE
    /\ lastIn = [ProtoFile |-> <<>>, FileToGenerate |-> <<>>]
    /\ lastResp = NilResp
    /\ lastErr = NilErr
    /\ prev = <<>>
    /\ again = FALSE

----------------------------------------------------------------------------
(* The generated decorators at run time *)

\* a nil *Words
NilResult == "nil"

\* the wrappers generateProtobufAnalytics emits: one per service and method
Wrappers ==
    { [service |-> FileA.Service[1], method |-> FileA.Service[1].Method[1]],
      [service |-> FileC.Service[1], method |-> FileC.Service[1].Method[1]] }

\* the wrapper of proto/test.twirp.ln.go
HelloWorldSpeak ==
    [service |-> Service(<<"H","e","l","l","o","W","o","r","l","d">>,
                         << Method("Speak", T_us_W, T_us_W) >>),
     method  |-> Method("Speak", T_us_W, T_us_W)]

\* the ln.F of a context: no field, a string x_forwarded_for, or an
\* x_forwarded_for that is no string
NoF == [k \in {} |-> [t |-> "string", v |-> ""]]
StringXFF == [k \in {"x_forwarded_for"} |-> [t |-> "string", v |-> "10.0.0.1"]]
IntXFF == [k \in {"x_forwarded_for"} |-> [t |-> "int", v |-> "7"]]
Contexts == {NoF, StringXFF, IntXFF}

Inputs == {"words1", "words2"}
\* what the delegate may return
Results == {NilResult, "reply"}
DelegateErrs == {NilErr, "someError"}
\* what client.Enqueue may return
EnqueueErrs == {NilErr, "submitErr"}

CallDone == pc \in {"idle", "done", "panicked"}

\* the call that is running, or that ran last
call == Len(callLog)

\* the event name the generated text assigns: the service name, a space and
\* the method name, between quotes
EventName(w) == serviceName(w.service) \o " " \o methodName(w.method)

\* entry of an analytics wrapper: var track; track.Event = "S M"
AnalyticsCall(w, c, i) ==
    /\ CallDone
    /\ call < MaxCalls
    /\ kind' = "analytics"
    /\ wService' = w.service
    /\ wMethod' = w.method
    /\ ctx' = c
    /\ input' = i
    /\ result' = NilResult
    /\ err' = NilErr
    /\ track' = [Event |-> EventName(w), UserId |-> ""]
    /\ ret' = <<>>
    /\ callLog' = Append(callLog, [kind |-> "analytics", service |-> w.service,
                                   method |-> w.method, ctx |-> c, input |-> i])
    /\ pc' = "userid"
    /\ UNCHANGED <<nextLog, sink, logs>>

\* track.UserId = ln.GetFFromContext(ctx)["x_forwarded_for"].(string), then
\* the defer statement; the type assertion panics before the function is
\* deferred when the field is missing or is no string
AnalyticsUserId ==
    /\ kind = "analytics" /\ pc = "userid"
    /\ IF "x_forwarded_for" \in DOMAIN ctx /\ ctx["x_forwarded_for"].t = "string"
       THEN /\ track' = [track EXCEPT !.UserId = ctx["x_forwarded_for"].v]
            /\ pc' = "next"
       ELSE /\ pc' = "panicked"
            /\ UNCHANGED track
    /\ UNCHANGED <<kind, wService, wMethod, ctx, input, result, err, ret,
                   callLog, nextLog, sink, logs>>

\* result, err = i.Next.M(ctx, input)
AnalyticsNext(r, e) ==
    /\ kind = "analytics" /\ pc = "next"
    /\ result' = r
    /\ err' = e
    /\ nextLog' = Append(nextLog, [call |-> call, ctx |-> ctx, input |-> input,
                                   result |-> r, err |-> e])
    /\ pc' = "deferred"
    /\ UNCHANGED <<kind, wService, wMethod, ctx, input, track, ret,
                   callLog, sink, logs>>

\* the deferred function never marking the event
DeferredEvent_NoSuffix(event, e) == event

\* the event name the deferred function submits
DeferredEvent(event, e) == IF e # NilErr THEN event \o " Error" ELSE event

\* the deferred function leaving without Enqueue when the delegate failed
AnalyticsDeferred_SkipOnError ==
    /\ kind = "analytics" /\ pc = "deferred"
    /\ track' = [track EXCEPT !.Event = DeferredEvent(track.Event, err)]
    /\ pc' = IF err # NilErr THEN "logerr" ELSE "enqueue"
    /\ UNCHANGED <<kind, wService, wMethod, ctx, input, result, err, ret,
                   callLog, nextLog, sink, logs>>

\* return, which runs the deferred function: if err != nil, track.Event += " Error"
AnalyticsDeferred ==
    /\ kind = "analytics" /\ pc = "deferred"
    /\ track' = [track EXCEPT !.Event = DeferredEvent(track.Event, err)]
    /\ pc' = "enqueue"
    /\ UNCHANGED <<kind, wService, wMethod, ctx, input, result, err, ret,
                   callLog, nextLog, sink, logs>>

\* the wrapper keeping the delegate's error over the one of Enqueue
AfterEnqueue_KeepFirst(e, enqueued) == IF e # NilErr THEN e ELSE enqueued

\* the error the wrapper holds once Enqueue has returned enqueued: err is
\* assigned whatever Enqueue returned
AfterEnqueue(e, enqueued) == enqueued

\* err = i.client.Enqueue(track)
AnalyticsEnqueue(e) ==
    /\ kind = "analytics" /\ pc = "enqueue"
    /\ sink' = Append(sink, [call |-> call, track |-> track, err |-> e])
    /\ err' = AfterEnqueue(err, e)
    /\ pc' = "logerr"
    /\ UNCHANGED <<kind, wService, wMethod, ctx, input, result, track, ret,
                   callLog, nextLog, logs>>

\* the records the end of the deferred function adds: ln.Error(ctx, err)
\* if err != nil
EnqueueLogged(c, e) ==
    IF e # NilErr
    THEN << [call |-> call, ctx |-> c, err |-> e, payload |-> <<>>] >>
    ELSE <<>>

\* the end of the deferred function, and the wrapper returns its named results
AnalyticsReturn ==
    /\ kind = "analytics" /\ pc = "logerr"
    /\ logs' = logs \o EnqueueLogged(ctx, err)
    /\ ret' = << [result |-> result, err |-> err] >>
    /\ pc' = "done"
    /\ UNCHANGED <<kind, wService, wMethod, ctx, input, result, err, track,
                   callLog, nextLog, sink>>

\* the fields HelloWorldLogging.Speak adds to the context
SpeakFields ==
    [k \in {"twirp_package", "twirp_service", "twirp_method"} |->
        [t |-> "string",
         v |-> CASE k = "twirp_package" -> "us.xeserv.api"
                 [] k = "twirp_service" -> "HelloWorld"
                 [] k = "twirp_method"  -> "Speak"]]

\* entry of HelloWorldLogging.Speak: ctx = ln.WithF(ctx, ln.F{...})
LoggingCall(c, i) ==
    /\ CallDone
    /\ call < MaxCalls
    /\ kind' = "logging"
    /\ wService' = HelloWorldSpeak.service
    /\ wMethod' = HelloWorldSpeak.method
    /\ ctx' = [k \in DOMAIN c \cup DOMAIN SpeakFields |->
                 IF k \in DOMAIN SpeakFields THEN SpeakFields[k] ELSE c[k]]
    /\ input' = i
    /\ result' = NilResult
    /\ err' = NilErr
    /\ ret' = <<>>
    /\ callLog' = Append(callLog, [kind |-> "logging",
                                   service |-> HelloWorldSpeak.service,
                                   method |-> HelloWorldSpeak.method,
                                   ctx |-> c, input |-> i])
    /\ pc' = "next"
    /\ UNCHANGED <<track, nextLog, sink, logs>>

\* result, err = i.next.Speak(ctx, input)
LoggingNext(r, e) ==
    /\ kind = "logging" /\ pc = "next"
    /\ result' = r
    /\ err' = e
    /\ nextLog' = Append(nextLog, [call |-> call, ctx |-> ctx, input |-> input,
                                   result |-> r, err |-> e])
    /\ pc' = "check"
    /\ UNCHANGED <<kind, wService, wMethod, ctx, input, track, ret,
                   callLog, sink, logs>>

\* the records the wrapper adds after the delegate: ln.Error(ctx, err, input)
\* if err != nil
SpeakLogged(c, e, i) ==
    IF e # NilErr
    THEN << [call |-> call, ctx |-> c, err |-> e, payload |-> <<i>>] >>
    ELSE <<>>

\* the wrapper returning nil, err when the delegate failed
SpeakReturned_NilOnError(r, e) ==
    [result |-> IF e # NilErr THEN NilResult ELSE r, err |-> e]

\* what HelloWorldLogging.Speak returns: its named results
SpeakReturned(r, e) == [result |-> r, err |-> e]

\* if err != nil { ln.Error(ctx, err, input) }; return
LoggingReturn ==
    /\ kind = "logging" /\ pc = "check"
    /\ logs' = logs \o SpeakLogged(ctx, err, input)
    /\ ret' = << SpeakReturned(result, err) >>
    /\ pc' = "done"
    /\ UNCHANGED <<kind, wService, wMethod, ctx, input, result, err, track,
                   callLog, nextLog, sink>>

\* a decorator instance before its first call
RunInit ==
    /\ kind = "none"
    /\ pc = "idle"
    /\ wService = Service(<<>>, <<>>)
    /\ wMethod = Method("", <<>>, <<>>)
    /\ ctx = NoF
    /\ input = NilResult
    /\ result = NilResult
    /\ err = NilErr
    /\ track = [Event |-> "", UserId |-> ""]
    /\ ret = <<>>
    /\ callLog = <<>>
    /\ nextLog = <<>>
    /\ sink = <<>>
    /\ logs = <<>>

----------------------------------------------------------------------------
(* The field classifier *)

RECURSIVE RestrictedFrom(_, _, _)
\* the loop of isRestricted over the tokens, from token i on
RestrictedFrom(name, things, i) ==
    IF i > Len(things) THEN FALSE
    ELSE IF Contains(name, things[i]) THEN TRUE
    ELSE RestrictedFrom(name, things, i + 1)

Things ==
    << <<"p","a","s","s","w","o","r","d">>,
       <<"t","o","k","e","n">>,
       <<"s","e","c","r","e","t">>,
       <<"a","u","t","h">> >>

isRestricted(name) == RestrictedFrom(name, Things, 1)

\* the field names classified: the names the specification lists, and a core
\* (a token, or a near miss of one) between two paddings
Listed ==
    { <<"p","a","s","s","w","o","r","d">>,
      <<"a","u","t","h","_","t","o","k","e","n">>,
      <<"c","l","i","e","n","t","_","s","e","c","r","e","t">>,
      <<"o","a","u","t","h">>,
      <<"u","s","e","r","n","a","m","e">>,
      <<"c","o","u","n","t">> }

Cores ==
    { Things[i] : i \in 1..Len(Things) } \cup
    { <<"P","a","s","s","w","o","r","d">>,
      <<"T","O","K","E","N">>,
      <<"s","e","c","r","e","T">>,
      <<"A","u","t","h">>,
      <<"p","a","s","s","w","o","r">>,
      <<"o","k","e","n">>,
      <<"s","e","c","_","r","e","t">>,
      <<"a","u","t">>,
      <<"p","a","s","s","w","d">>,
      <<"t","o","k","e">>,
      <<"A","U","T","H">>,
      <<"s","e","c","r","e","t","s">>,
      <<"a","u","t","h","t","o","k","e","n">>,
      <<"u","s","e","r">>,
      <<"i","d">>,
      <<>> }

PadChars == {"_", "t"}
Pads == UNION { [1..n -> PadChars] : n \in 0..MaxPad }

FieldNames == Listed \cup { p \o c \o q : p \in Pads, c \in Cores, q \in Pads }

\* the generator classifies one field name
Classify(name) ==
    /\ inp' = name
    /\ restricted' = isRestricted(name)
    /\ classified' = TRUE

ClsInit ==
    /\ inp = <<>>
    /\ restricted = FALSE
    /\ classified = FALSE

----------------------------------------------------------------------------
(* Specifications *)

Init == GenInit /\ RunInit /\ ClsInit

\* the plugin: any request, any number of times, on one generator
Next ==
    \/ \E in \in Requests : Generate(in) /\ UNCHANGED <<runVars, clsVars>>
    \/ Remember /\ UNCHANGED <<runVars, clsVars>>

Spec == Init /\ [][Next]_vars

\* calls to one decorator instance, one after the other
RunNext ==
    \/ \E w \in Wrappers, c \in Contexts, i \in Inputs :
          AnalyticsCall(w, c, i) /\ UNCHANGED <<genVars, clsVars>>
    \/ AnalyticsUserId /\ UNCHANGED <<genVars, clsVars>>
    \/ \E r \in Results, e \in DelegateErrs :
          AnalyticsNext(r, e) /\ UNCHANGED <<genVars, clsVars>>
    \/ AnalyticsDeferred /\ UNCHANGED <<genVars, clsVars>>
    \/ \E e \in EnqueueErrs : AnalyticsEnqueue(e) /\ UNCHANGED <<genVars, clsVars>>
    \/ AnalyticsReturn /\ UNCHANGED <<genVars, clsVars>>
    \/ \E c \in Contexts, i \in Inputs :
          LoggingCall(c, i) /\ UNCHANGED <<genVars, clsVars>>
    \/ \E r \in Results, e \in DelegateErrs :
          LoggingNext(r, e) /\ UNCHANGED <<genVars, clsVars>>
    \/ LoggingReturn /\ UNCHANGED <<genVars, clsVars>>

RunSpec == Init /\ [][RunNext]_vars

\* the classifier, on one field name after another
ClsNext == \E name \in FieldNames : Classify(name) /\ UNCHANGED <<genVars, runVars>>

ClsSpec == Init /\ [][ClsNext]_vars

----------------------------------------------------------------------------
(* Properties of the plugin, under Spec *)

\* the files the last request asked for, in the order it named them
Requested == FilesToGenerate(lastIn).genFiles

\* the qualified names the files of the last request declare
Declared == typemapNew(lastIn.ProtoFile)

RECURSIVE Names(_)
Names(files) ==
    IF files = <<>> THEN <<>> ELSE <<Head(files).Name>> \o Names(Tail(files))

RECURSIVE GoNames(_)
GoNames(files) ==
    IF files = <<>> THEN <<>> ELSE <<goFileName(Head(files))>> \o GoNames(Tail(files))

\* C4: the response holds one file for each requested file that declares a
\* service, in the order requested, and no file for a requested file that
\* declares none.
C4_NoFileWithoutService ==
    (ran /\ lastErr = NilErr) =>
        Names(lastResp.File) =
            GoNames(SelectSeq(Requested, LAMBDA f : Len(f.Service) >= 1))

\* a method of a requested file names a type that no file of the request declares
Unresolved ==
    \E i \in 1..Len(Requested) :
        \E j \in 1..Len(Requested[i].Service) :
            \E k \in 1..Len(Requested[i].Service[j].Method) :
                LET m == Requested[i].Service[j].Method[k] IN
                m.InputType \notin Declared \/ m.OutputType \notin Declared

\* C5: a request with a method whose input or output type is not registered
\* fails as a whole: Generate returns an error and no file.
C5_UnresolvedTypeFails ==
    (ran /\ Unresolved) => (lastErr # NilErr /\ lastResp.File = <<>>)

\* the wrapper signatures of a generated text, in the order printed
Signatures(content) ==
    LET lines == SelectSeq(content, LAMBDA l : Len(l) = 9 /\ l[1] = "func (i ")
    IN [n \in 1..Len(lines) |->
          [recv |-> lines[n][2], name |-> lines[n][4],
           in |-> lines[n][6], out |-> lines[n][8]]]

\* the decorator types of a generated text, in the order printed
TypeDecls(content) ==
    LET lines == SelectSeq(content, LAMBDA l : Len(l) = 3 /\ l[1] = "type ")
    IN [n \in 1..Len(lines) |-> lines[n][2]]

\* the constructors of a generated text, in the order printed
Constructors(content) ==
    LET lines == SelectSeq(content, LAMBDA l : Len(l) = 7 /\ l[1] = "func New")
    IN [n \in 1..Len(lines) |-> [type |-> lines[n][2], returns |-> lines[n][6]]]

\* the part of a dotted name after its last dot
AfterLastDot(full) ==
    LET dots == { k \in 1..Len(full) : full[k] = "." }
        last == IF dots = {} THEN 0 ELSE CHOOSE k \in dots : \A d \in dots : d <= k
    IN Str(SubSeq(full, last + 1, Len(full)))

RECURSIVE WantedSignatures(_, _, _)
\* one signature per method of each service, services and methods in the
\* order declared, from method j of service i on
WantedSignatures(file, i, j) ==
    IF i > Len(file.Service) THEN <<>>
    ELSE IF j > Len(file.Service[i].Method) THEN WantedSignatures(file, i + 1, 1)
    ELSE LET m == file.Service[i].Method[j] IN
         << [recv |-> serviceName(file.Service[i]) \o "Analytics",
             name |-> m.Name,
             in   |-> AfterLastDot(m.InputType),
             out  |-> AfterLastDot(m.OutputType)] >>
         \o WantedSignatures(file, i, j + 1)

WantedTypes(file) ==
    [i \in 1..Len(file.Service) |-> serviceName(file.Service[i]) \o "Analytics"]

WantedConstructors(file) ==
    [i \in 1..Len(file.Service) |->
        [type |-> serviceName(file.Service[i]) \o "Analytics",
         returns |-> serviceName(file.Service[i])]]

RECURSIVE IsSubsequence(_, _)
\* the elements of a are elements of b, in b's order
IsSubsequence(a, b) ==
    IF a = <<>> THEN TRUE
    ELSE IF b = <<>> THEN FALSE
    ELSE IF Head(a) = Head(b) THEN IsSubsequence(Tail(a), Tail(b))
    ELSE IsSubsequence(a, Tail(b))

\* C8: an invocation of Generate returns what an earlier invocation on the
\* same generator returned for the same request: the same error and the same
\* files, with the same names, in the order of the files to generate, and
\* the same content; the output buffer is empty between invocations.
C8_Deterministic ==
    /\ g_output = <<>>
    /\ ran => IsSubsequence(Names(lastResp.File), GoNames(Requested))
    /\ (prev # <<>> /\ prev[1].in = lastIn) =>
          (prev[1].resp = lastResp /\ prev[1].err = lastErr)

\* a request for two files has been answered a second time
C8_Witness ==
    /\ prev # <<>> /\ again
    /\ prev[1].in = lastIn
    /\ Len(lastResp.File) = 2

----------------------------------------------------------------------------
(* Properties of the generated decorators, under RunSpec *)

\* call c has returned or panicked
Ended(c) == c < call \/ (c = call /\ pc \in {"done", "panicked"})

DelegateCalls(c) == SelectSeq(nextLog, LAMBDA d : d.call = c)
Enqueues(c) == SelectSeq(sink, LAMBDA s : s.call = c)
Logged(c) == SelectSeq(logs, LAMBDA l : l.call = c)

AnalyticsCalls == { c \in 1..call : callLog[c].kind = "analytics" }
LoggingCalls == { c \in 1..call : callLog[c].kind = "logging" }

\* the context carries x_forwarded_for as a string
HasStringXFF(c) ==
    "x_forwarded_for" \in DOMAIN c /\ c["x_forwarded_for"].t = "string"

\* C1: when the delegate returns an error and Enqueue succeeds, the analytics
\* wrapper returns the delegate's error.
C1_DelegateErrorReturned ==
    (kind = "analytics" /\ pc = "done"
        /\ DelegateCalls(call)[1].err # NilErr
        /\ Enqueues(call)[1].err = NilErr)
    => ret[1].err = DelegateCalls(call)[1].err

\* C2: when Enqueue fails, the analytics wrapper returns the delegate's
\* output with the error of Enqueue, whatever the delegate's own error was,
\* and that error is logged once, through ln.Error(ctx, err).
C2_EnqueueErrorReplaces ==
    (kind = "analytics" /\ pc = "done" /\ Enqueues(call)[1].err # NilErr)
    => /\ ret[1] = [result |-> DelegateCalls(call)[1].result,
                    err    |-> Enqueues(call)[1].err]
       /\ Len(Logged(call)) = 1
       /\ Logged(call)[1].err = Enqueues(call)[1].err
       /\ Logged(call)[1].payload = <<>>

\* Enqueue failed after the delegate had failed with another error and a
\* non-nil output
C2_Witness ==
    /\ kind = "analytics" /\ pc = "done"
    /\ DelegateCalls(call)[1].err = "someError"
    /\ DelegateCalls(call)[1].result = "reply"
    /\ Enqueues(call)[1].err = "submitErr"
    /\ ret[1] = [result |-> "reply", err |-> "submitErr"]

\* C3 as stated: every call of an analytics wrapper that has ended has
\* submitted exactly one event.
C3_EveryCallSubmitsOnce ==
    \A c \in AnalyticsCalls : Ended(c) => Len(Enqueues(c)) = 1

\* C3, amended: an analytics wrapper never submits before its delegate has
\* returned and never submits twice; a call whose context carries a string
\* x_forwarded_for has, once it ended, invoked the delegate once and
\* submitted exactly one event, also when the delegate returned an error; a
\* call whose context does not has neither invoked the delegate nor submitted.
C3_OneSubmissionAfterDelegate ==
    \A c \in AnalyticsCalls :
        /\ Len(Enqueues(c)) <= Len(DelegateCalls(c))
        /\ Len(DelegateCalls(c)) <= 1
        /\ Ended(c) =>
              IF HasStringXFF(callLog[c].ctx)
              THEN Len(DelegateCalls(c)) = 1 /\ Len(Enqueues(c)) = 1
              ELSE Len(DelegateCalls(c)) = 0 /\ Len(Enqueues(c)) = 0

\* a call whose delegate failed has ended with its one submission, after a
\* call that panicked
C3_Witness ==
    /\ kind = "analytics" /\ pc = "done" /\ call = 2
    /\ ~HasStringXFF(callLog[1].ctx) /\ callLog[1].kind = "analytics"
    /\ DelegateCalls(2)[1].err # NilErr
    /\ Len(Enqueues(2)) = 1

C10_EventNamedByDelegateError ==
    \A n \in 1..Len(sink) :
        LET s == sink[n]
            d == DelegateCalls(s.call)[1]
            base == serviceName(callLog[s.call].service) \o " "
                    \o callLog[s.call].method.Name
        IN /\ s.track.Event = IF d.err # NilErr THEN base \o " Error" ELSE base
           /\ (s.call = call /\ kind = "analytics") => track.Event = s.track.Event

\* both events of hello_world's Speak have been submitted, the one of a
\* successful delegate with a failing Enqueue
C10_Witness ==
    /\ Len(sink) = 2 /\ pc = "done"
    /\ sink[1].track.Event = "HelloWorld Speak" /\ sink[1].err = "submitErr"
    /\ sink[2].track.Event = "HelloWorld Speak Error"

----------------------------------------------------------------------------
(* Properties of the classifier, under ClsSpec *)

Tokens ==
    { <<"p","a","s","s","w","o","r","d">>, <<"t","o","k","e","n">>,
      <<"s","e","c","r","e","t">>, <<"a","u","t","h">> }

\* name is some prefix, then tok, then some suffix
Occurs(tok, name) ==
    \E a \in 0..Len(name) : \E b \in a..Len(name) :
        /\ b - a = Len(tok)
        /\ \A k \in 1..Len(tok) : name[a + k] = tok[k]

\* C7: isRestricted is true exactly of the names in which password, token,
\* secret or auth occurs, in that spelling, at any position; so of password,
\* auth_token, client_secret and oauth, and not of username and count.
C7_RestrictedIffTokenOccurs ==
    classified =>
        /\ restricted <=> (\E tok \in Tokens : Occurs(tok, inp))
        /\ Str(inp) \in {"password", "auth_token", "client_secret", "oauth"}
              => restricted
        /\ Str(inp) \in {"username", "count"} => ~restricted

\* a name with a token after a prefix and before a suffix was classified
C7_Witness ==
    /\ classified /\ restricted
    /\ Str(inp) = "_secret_"
=============================================================================
